---- MODULE Spec2Model ----
(***************************************************************************)
(* Model of the viewer's data hook useCycloneData (hooks/useCycloneData.ts) *)
(* of cyclones.re: the initialisation protocol `init` (metadata load,       *)
(* default index selection, prefetch of the last two days with progress,   *)
(* publication of the default snapshot) and the navigation operation        *)
(* `loadSnapshot`.                                                          *)
(*                                                                          *)
(* Scheduling: JavaScript's event loop.  An action is one macrotask (a      *)
(* network or image event, a call by the UI, the effect's cleanup) together *)
(* with every promise continuation it makes runnable, since microtasks are  *)
(* drained before the next macrotask starts.                                *)
(*                                                                          *)
(* Indices are 0-based as in the source; entry i of an array is data[i+1].  *)
(* A LoadedSnapshot is identified by the index of the metadata entry whose  *)
(* trajectory reference it was fetched for: <<i>>, and null is <<>>.        *)
(*                                                                          *)
(* After the hook: the overlay bounds conversion of the viewer, and the two *)
(* fetchers cron runs on the server, fetch_api.ts (index api_data.json) and *)
(* fetch_satellite.ts (index satellite_metadata.json).                      *)
(***************************************************************************)
EXTENDS Integers, Sequences, FiniteSets, TLC

\* ------------------------------------------------------------------ bounds
\* Longest metadata array the index fetch returns, in the model of the hook and
\* in the model of init's selection alone.
MaxLen == 2
SelLen == 3

\* Timestamps an entry of the index can carry, and the horizons (now - 2 days)
\* they are compared with.  For the hook: a horizon midway between the two
\* timestamps (the tie) and one nearer to the later.  For the selection: below,
\* midway, on a timestamp and above.
Timestamps == {200, 300}
Horizons == {250, 260}
SelTimestamps == {100, 200, 300}
SelHorizons == {50, 250, 300, 350}

\* Files the data directory of fetch_api.ts holds at most, and runs of the
\* satellite fetcher in one behaviour.
MaxFiles == 2
MaxRuns == 1

\* Coordinates of a bbox, in tenths of a degree: the corners of WMS_BBOX and a
\* value outside every valid range.
Degrees == {-410, 211, 1030, 2000}

\* ------------------------------------------------------- program constants
\* 2 * 24 * 60 * 60 * 1000
TwoDaysMs == 2 * 24 * 60 * 60 * 1000

Null == <<>>
Snap(i) == <<i>>

\* loadingMessage values
MsgMetadata == [kind |-> "Chargement des metadonnees...", completed |-> 0, total |-> 0]
MsgPrefetch == [kind |-> "Prechargement des donnees...", completed |-> 0, total |-> 0]
MsgProgress(c, t) == [kind |-> "Prechargement des donnees... c/t", completed |-> c, total |-> t]
MsgReady == [kind |-> "Pret !", completed |-> 0, total |-> 0]

\* err.message of the three failures init can catch
ErrIndex == "IndexLoadError"
ErrSnapshot == "SnapshotLoadError"
ErrImage == "ImagePreloadError"
NoError == "null"

VARIABLES
    \* environment
    now,              \* Date.now() as read by init
    serverData,       \* the array the metadata store serves
    \* hook state (useState)
    metadata, currentSnapshot, currentMetadata, isLoading,
    loadingMessage, loadingProgress, error, defaultIndex,
    \* effect closure
    mounted,          \* liveness flag of the effect
    pc,               \* where init is suspended
    initialIndex,     \* init's local initialIndex
    total, completed, \* init's locals
    task,             \* per entry: state of its prefetch callback
    img,              \* per entry: state of its two image preloads
    \* snapshot loader
    req,              \* per trajectory reference: state of the shared request
    inflight,         \* per reference: network requests issued and not settled
    waiting,          \* per reference: a loadSnapshot call awaits it
    \* observation
    progressLog,      \* values passed to setLoadingProgress, in order
    consoleErrors,    \* indices for which loadSnapshot logged an error
    \* overlay bounds (utils/api.ts)
    bbox,             \* the bbox of a satellite image entry
    bounds,           \* what the ImageOverlay is given, null before conversion
    \* fetch_api.ts
    dataDir,          \* the .json files under BASE_DIR, in directory-walk order
    apiIndex,         \* api_data.json
    apiPc,            \* where main is suspended
    cycloneIds,       \* trajectories main has still to fetch
    collected,        \* what getJsonFiles returned to the last generateJSON
    \* fetch_satellite.ts
    metadataFile,     \* satellite_metadata.json
    satPc,            \* where main is suspended
    satMetadata,      \* main's local metadata
    newImages,        \* main's local newImages
    layerIndex,       \* main's loop variable i
    timestamp,        \* main's local timestamp
    attempted,        \* layers whose download this run has started, in order
    succeeded,        \* layers whose download returned true in this run
    writes,           \* saveMetadata calls of this run
    fileBefore,       \* satellite_metadata.json as this run found it
    satRuns           \* runs started

hookVars == <<now, serverData, metadata, currentSnapshot, currentMetadata,
              isLoading, loadingMessage, loadingProgress, error, defaultIndex,
              mounted, pc, initialIndex, total, completed, task, img, req,
              inflight, waiting, progressLog, consoleErrors>>

boundsVars == <<bbox, bounds>>

apiVars == <<dataDir, apiIndex, apiPc, cycloneIds, collected>>

satVars == <<metadataFile, satPc, satMetadata, newImages, layerIndex, timestamp,
             attempted, succeeded, writes, fileBefore, satRuns>>

vars == <<hookVars, boundsVars, apiVars, satVars>>

\* The whole state as one record, so that a handler is a composition of the
\* statements it runs.
State ==
    [now |-> now, serverData |-> serverData, metadata |-> metadata,
     currentSnapshot |-> currentSnapshot, currentMetadata |-> currentMetadata,
     isLoading |-> isLoading, loadingMessage |-> loadingMessage,
     loadingProgress |-> loadingProgress, error |-> error,
     defaultIndex |-> defaultIndex, mounted |-> mounted, pc |-> pc,
     initialIndex |-> initialIndex, total |-> total, completed |-> completed,
     task |-> task, img |-> img, req |-> req, inflight |-> inflight,
     waiting |-> waiting,
     progressLog |-> progressLog, consoleErrors |-> consoleErrors]

Becomes(s) ==
    /\ now' = s.now
    /\ serverData' = s.serverData
    /\ metadata' = s.metadata
    /\ currentSnapshot' = s.currentSnapshot
    /\ currentMetadata' = s.currentMetadata
    /\ isLoading' = s.isLoading
    /\ loadingMessage' = s.loadingMessage
    /\ loadingProgress' = s.loadingProgress
    /\ error' = s.error
    /\ defaultIndex' = s.defaultIndex
    /\ mounted' = s.mounted
    /\ pc' = s.pc
    /\ initialIndex' = s.initialIndex
    /\ total' = s.total
    /\ completed' = s.completed
    /\ task' = s.task
    /\ img' = s.img
    /\ req' = s.req
    /\ inflight' = s.inflight
    /\ waiting' = s.waiting
    /\ progressLog' = s.progressLog
    /\ consoleErrors' = s.consoleErrors
    /\ UNCHANGED <<boundsVars, apiVars, satVars>>

\* ------------------------------------------------------------ pure helpers
Abs(x) == IF x < 0 THEN -x ELSE x

Indices(data) == 0 .. (Len(data) - 1)

\* const twoDaysAgo = Date.now() - 2 * 24 * 60 * 60 * 1000
twoDaysAgo(t) == t - TwoDaysMs

\* nearestScan with `diff <= minDiff`: the last of the nearest entries wins
RECURSIVE nearestScanLastWins(_, _, _, _)
nearestScanLastWins(data, horizon, i, acc) ==
    IF i >= Len(data) THEN acc
    ELSE LET diff == Abs(data[i + 1].timestamp - horizon)
         IN  IF acc.inf \/ diff <= acc.minDiff
             THEN nearestScanLastWins(data, horizon, i + 1,
                                      [inf |-> FALSE, minDiff |-> diff, initialIndex |-> i])
             ELSE nearestScanLastWins(data, horizon, i + 1, acc)

\* The scan for the default index: the loop body for index i, on the pair
\* (minDiff, initialIndex); minDiff = Infinity is the flag inf.
RECURSIVE nearestScan(_, _, _, _)
nearestScan(data, horizon, i, acc) ==
    IF i >= Len(data) THEN acc
    ELSE LET diff == Abs(data[i + 1].timestamp - horizon)
         IN  IF acc.inf \/ diff < acc.minDiff
             THEN nearestScan(data, horizon, i + 1,
                              [inf |-> FALSE, minDiff |-> diff, initialIndex |-> i])
             ELSE nearestScan(data, horizon, i + 1, acc)

nearestIndex(data, horizon) ==
    nearestScan(data, horizon, 0,
                [inf |-> TRUE, minDiff |-> 0, initialIndex |-> 0]).initialIndex

\* snapshotsToPrefetch widened so that the default entry is always prefetched
snapshotsToPrefetchWithDefault(data, horizon) ==
    {i \in Indices(data) : data[i + 1].timestamp >= horizon}
        \cup {nearestIndex(data, horizon)}

\* data.filter((meta) => meta.timestamp >= twoDaysAgo), as the set of indices kept
snapshotsToPrefetch(data, horizon) ==
    {i \in Indices(data) : data[i + 1].timestamp >= horizon}

\* progressOf computed from the count before `completed++`
progressOfBeforeIncrement(c, t) == (200 * (c - 1) + t) \div (2 * t)

\* Math.round((completed / total) * 100): round half up
progressOf(c, t) == (200 * c + t) \div (2 * t)

\* ------------------------------------------------ statements of the handlers
setLoadingProgress(s, p) ==
    [s EXCEPT !.loadingProgress = p, !.progressLog = Append(@, p)]

\* fetchSnapshotData that memoizes results only: a call for a reference whose
\* request is still in flight issues a request of its own
fetchSnapshotDataNoCoalescing(s, i) ==
    IF s.req[i] = "cached"
    THEN s
    ELSE [s EXCEPT !.req[i] = "pending", !.inflight[i] = @ + 1]

\* fetchSnapshotData(meta) as a call: a reference that is neither cached nor in
\* flight starts the one network request that every later caller shares.
fetchSnapshotData(s, i) ==
    IF s.req[i] = "idle"
    THEN [s EXCEPT !.req[i] = "pending", !.inflight[i] = @ + 1]
    ELSE s

\* snapshotsToPrefetch.map(async (meta) => { await fetchSnapshotData(meta); ... }):
\* every callback runs to its first await, in array order
RECURSIVE fetchEach(_, _)
fetchEach(s, todo) ==
    IF todo = {}
    THEN s
    ELSE LET i == CHOOSE x \in todo : \A y \in todo : x <= y
         IN  fetchEach(fetchSnapshotData(s, i), todo \ {i})

\* catchBlock without setIsLoading(false)
catchBlockStillLoading(s, msg) ==
    IF ~s.mounted
    THEN [s EXCEPT !.pc = "done"]
    ELSE [s EXCEPT !.error = msg, !.pc = "done"]

\* catch (err) { if (!mounted) return; setError(...); setIsLoading(false); }
catchBlock(s, msg) ==
    IF ~s.mounted
    THEN [s EXCEPT !.pc = "done"]
    ELSE [s EXCEPT !.error = msg, !.isLoading = FALSE, !.pc = "done"]

\* after `await fetchSnapshotData(data[initialIndex])` resolved
\* the same with the final setIsLoading(false) left out
publishDefaultStillLoading(s) ==
    IF ~s.mounted
    THEN [s EXCEPT !.pc = "done"]
    ELSE [s EXCEPT !.currentSnapshot = Snap(s.initialIndex),
                   !.currentMetadata = Snap(s.initialIndex),
                   !.pc = "done"]

publishDefault(s) ==
    IF ~s.mounted
    THEN [s EXCEPT !.pc = "done"]
    ELSE [s EXCEPT !.currentSnapshot = Snap(s.initialIndex),
                   !.currentMetadata = Snap(s.initialIndex),
                   !.isLoading = FALSE,
                   !.pc = "done"]

\* after the prefetch: step 3 up to its await, and past it on a cache hit
stepThree(s) ==
    IF ~s.mounted
    THEN [s EXCEPT !.pc = "done"]
    ELSE LET s1 == setLoadingProgress([s EXCEPT !.loadingMessage = MsgReady], 100)
             s2 == fetchSnapshotData(s1, s1.initialIndex)
         IN  IF s2.req[s2.initialIndex] = "cached"
             THEN publishDefault(s2)
             ELSE [s2 EXCEPT !.pc = "final"]

\* entryCompleted with a join that fires on the first callback to finish
entryCompletedFirstWins(s, i) ==
    LET s1 == [s EXCEPT !.task[i] = "done", !.completed = @ + 1]
        s2 == IF s1.mounted
              THEN setLoadingProgress(
                       [s1 EXCEPT !.loadingMessage = MsgProgress(s1.completed, s1.total)],
                       progressOf(s1.completed, s1.total))
              ELSE s1
    IN  IF s2.pc = "prefetch" THEN stepThree(s2) ELSE s2

\* the tail of one prefetch callback, and the join when it was the last one
entryCompleted(s, i) ==
    LET s1 == [s EXCEPT !.task[i] = "done", !.completed = @ + 1]
        s2 == IF s1.mounted
              THEN setLoadingProgress(
                       [s1 EXCEPT !.loadingMessage = MsgProgress(s1.completed, s1.total)],
                       progressOf(s1.completed, s1.total))
              ELSE s1
    IN  IF s2.pc = "prefetch" /\ \A j \in DOMAIN s2.task : s2.task[j] \in {"none", "done"}
        THEN stepThree(s2)
        ELSE s2

\* entryFailed under a join that waits for every callback and ignores the
\* rejected ones
entryFailedIsolated(s, i, msg) ==
    LET s1 == [s EXCEPT !.task[i] = "failed"]
    IN  IF s1.pc = "prefetch" /\ \A j \in DOMAIN s1.task : s1.task[j] \in {"none", "done", "failed"}
        THEN stepThree(s1)
        ELSE s1

\* a prefetch callback throws: Promise.all rejects on the first rejection
entryFailed(s, i, msg) ==
    LET s1 == [s EXCEPT !.task[i] = "failed"]
    IN  IF s1.pc = "prefetch" THEN catchBlock(s1, msg) ELSE s1

\* entryFetched that starts the preloads and does not await them
entryFetchedNoAwait(s, i, ir, rgb) ==
    LET s1 == [s EXCEPT !.img[i] = [ir108 |-> IF ir THEN "pending" ELSE "none",
                                     rgb |-> IF rgb THEN "pending" ELSE "none"]]
    IN  entryCompleted(s1, i)

\* one prefetch callback after its snapshot arrived: start the preloads.  ir and
\* rgb are meta.satellite_ir108?.file and meta.satellite_rgb_naturalenhncd?.file
\* being present; nothing else reads them, so they are drawn when read.
entryFetched(s, i, ir, rgb) ==
    LET s1 == [s EXCEPT !.img[i] = [ir108 |-> IF ir THEN "pending" ELSE "none",
                                     rgb |-> IF rgb THEN "pending" ELSE "none"]]
    IN  IF ir \/ rgb
        THEN [s1 EXCEPT !.task[i] = "images"]
        ELSE entryCompleted(s1, i)

\* afterLoadMetadata whose early return on an empty index leaves isLoading set
afterLoadMetadataEmptyKeepsLoading(s, data) ==
    IF ~s.mounted
    THEN [s EXCEPT !.pc = "done"]
    ELSE LET s1 == [s EXCEPT !.metadata = data]
         IN  IF Len(data) = 0
             THEN [s1 EXCEPT !.pc = "done"]
             ELSE LET horizon == twoDaysAgo(s1.now)
                      toPrefetch == snapshotsToPrefetch(data, horizon)
                      idx == nearestIndex(data, horizon)
                      s2 == [s1 EXCEPT !.initialIndex = idx,
                                       !.defaultIndex = idx,
                                       !.loadingMessage = MsgPrefetch,
                                       !.total = Cardinality(toPrefetch),
                                       !.completed = 0]
                  IN  IF s2.total > 0
                      THEN fetchEach(
                               [s2 EXCEPT
                                  !.task = [i \in DOMAIN @ |->
                                               IF i \in toPrefetch THEN "fetch" ELSE "none"],
                                  !.pc = "prefetch"],
                               toPrefetch)
                      ELSE stepThree(s2)

\* init from the resolution of loadMetadata() to its next await
afterLoadMetadata(s, data) ==
    IF ~s.mounted
    THEN [s EXCEPT !.pc = "done"]
    ELSE LET s1 == [s EXCEPT !.metadata = data]
         IN  IF Len(data) = 0
             THEN [s1 EXCEPT !.isLoading = FALSE, !.pc = "done"]
             ELSE LET horizon == twoDaysAgo(s1.now)
                      toPrefetch == snapshotsToPrefetch(data, horizon)
                      idx == nearestIndex(data, horizon)
                      s2 == [s1 EXCEPT !.initialIndex = idx,
                                       !.defaultIndex = idx,
                                       !.loadingMessage = MsgPrefetch,
                                       !.total = Cardinality(toPrefetch),
                                       !.completed = 0]
                  IN  IF s2.total > 0
                      THEN fetchEach(
                               [s2 EXCEPT
                                  !.task = [i \in DOMAIN @ |->
                                               IF i \in toPrefetch THEN "fetch" ELSE "none"],
                                  !.pc = "prefetch"],
                               toPrefetch)
                      ELSE stepThree(s2)

\* loadSnapshotResumed whose catch blanks the display
loadSnapshotResumedBlanks(s, i, ok) ==
    IF ok
    THEN [s EXCEPT !.currentSnapshot = Snap(i), !.waiting[i] = FALSE]
    ELSE [s EXCEPT !.currentSnapshot = Null, !.consoleErrors = @ \cup {i},
                   !.waiting[i] = FALSE]

\* the continuation of a loadSnapshot call whose fetch settled
loadSnapshotResumed(s, i, ok) ==
    IF ok
    THEN [s EXCEPT !.currentSnapshot = Snap(i), !.waiting[i] = FALSE]
    ELSE [s EXCEPT !.consoleErrors = @ \cup {i}, !.waiting[i] = FALSE]

\* loadSnapshot that sets currentMetadata before it validates the index
loadSnapshotLateCheck(s, index) ==
    LET s0 == [s EXCEPT !.currentMetadata = Snap(index)]
    IN  IF index < 0 \/ index >= Len(s.metadata)
        THEN s0
        ELSE LET s1 == fetchSnapshotData(s0, index)
             IN  IF s1.req[index] = "cached"
                 THEN loadSnapshotResumed(s1, index, TRUE)
                 ELSE [s1 EXCEPT !.waiting[index] = TRUE]

\* loadSnapshot(index) up to its await, and past it on a cache hit
loadSnapshot(s, index) ==
    IF index < 0 \/ index >= Len(s.metadata)
    THEN s
    ELSE LET s1 == fetchSnapshotData([s EXCEPT !.currentMetadata = Snap(index)], index)
         IN  IF s1.req[index] = "cached"
             THEN loadSnapshotResumed(s1, index, TRUE)
             ELSE [s1 EXCEPT !.waiting[index] = TRUE]

\* snapshotSettled whose prefetch callback goes on to the preloads although its
\* fetch failed
snapshotSettledPreloadsAnyway(s, i, ok, ir, rgb) ==
    LET s1 == [s EXCEPT !.req[i] = IF ok THEN "cached" ELSE "idle",
                        !.inflight[i] = @ - 1]
        s2 == IF s1.waiting[i] THEN loadSnapshotResumed(s1, i, ok) ELSE s1
    IN  IF s2.task[i] = "fetch"
        THEN entryFetched(s2, i, ir, rgb)
        ELSE IF s2.pc = "final" /\ s2.initialIndex = i
             THEN IF ok THEN publishDefault(s2) ELSE catchBlock(s2, ErrSnapshot)
             ELSE s2

\* the request for reference i settles: every caller awaiting it resumes, the
\* loadSnapshot calls (one promise hop) before init's callbacks
snapshotSettled(s, i, ok, ir, rgb) ==
    LET s1 == [s EXCEPT !.req[i] = IF ok THEN "cached" ELSE "idle",
                        !.inflight[i] = @ - 1]
        s2 == IF s1.waiting[i] THEN loadSnapshotResumed(s1, i, ok) ELSE s1
    IN  IF s2.task[i] = "fetch"
        THEN IF ok THEN entryFetched(s2, i, ir, rgb) ELSE entryFailed(s2, i, ErrSnapshot)
        ELSE IF s2.pc = "final" /\ s2.initialIndex = i
             THEN IF ok THEN publishDefault(s2) ELSE catchBlock(s2, ErrSnapshot)
             ELSE s2

\* imageSettled that counts the entry on each preload that loads
imageSettledPerImage(s, i, layer, ok) ==
    LET s1 == [s EXCEPT !.img[i][layer] = IF ok THEN "loaded" ELSE "failed"]
    IN  IF s1.task[i] # "images"
        THEN s1
        ELSE IF ~ok
             THEN entryFailed(s1, i, ErrImage)
             ELSE entryCompleted(s1, i)

\* one image preload settles
imageSettled(s, i, layer, ok) ==
    LET s1 == [s EXCEPT !.img[i][layer] = IF ok THEN "loaded" ELSE "failed"]
    IN  IF s1.task[i] # "images"
        THEN s1
        ELSE IF ~ok
             THEN entryFailed(s1, i, ErrImage)
             ELSE IF s1.img[i].ir108 # "pending" /\ s1.img[i].rgb # "pending"
                  THEN entryCompleted(s1, i)
                  ELSE s1

\* ---------------------------------------------------------------- the model
Layers == {"ir108", "rgb"}

Entries(ts) == [timestamp : ts]

\* The index is written sorted by timestamp ascending.
Sorted(data) == \A i \in 1 .. Len(data) - 1 : data[i].timestamp <= data[i + 1].timestamp

Arrays(ts, maxLen) ==
    {d \in UNION {[1 .. n -> Entries(ts)] : n \in 0 .. maxLen} : Sorted(d)}

\* ------------------------------------------------------------ overlay bounds
\* const WMS_BBOX = [21.1, -41, 103, 21.1]: [minLon, minLat, maxLon, maxLat]
WMS_BBOX == <<211, -410, 1030, 211>>

\* the same without the axis swap
bboxToLeafletBoundsNoSwap(b) == <<<<b[1], b[2]>>, <<b[3], b[4]>>>>

\* bboxToLeafletBounds(bbox): [[minLat, minLon], [maxLat, maxLon]]
bboxToLeafletBounds(b) == <<<<b[2], b[1]>>, <<b[4], b[3]>>>>

BoundsAtRest ==
    /\ bbox = WMS_BBOX
    /\ bounds = Null

\* ------------------------------------------------------------- the fetchers
\* Milliseconds the clock (Date.now, a file's mtimeMs) can show: two readings
\* within one second and one in a later second.
ClockMs == {100000, 100900, 200000}

\* Math.floor(ms / 1000)
floorSeconds(ms) == ms \div 1000

RECURSIVE insertByTimestamp(_, _)
\* x goes before the first element the comparator puts after it
insertByTimestamp(sorted, x) ==
    IF sorted = <<>>
    THEN <<x>>
    ELSE IF x.timestamp - Head(sorted).timestamp < 0
         THEN <<x>> \o sorted
         ELSE <<Head(sorted)>> \o insertByTimestamp(Tail(sorted), x)

RECURSIVE sortByTimestamp(_)
\* a.sort((a, b) => a.timestamp - b.timestamp); Array.prototype.sort is stable
sortByTimestamp(a) ==
    IF a = <<>>
    THEN <<>>
    ELSE insertByTimestamp(sortByTimestamp(SubSeq(a, 1, Len(a) - 1)), a[Len(a)])

\* ---- fetch_api.ts
\* A file under BASE_DIR is [path, mtimeMs]; the n-th file created has path n.
\* saveJson creates one; where readdirSync meets it is the file system's choice.
saveJson(dir, pos, ms) ==
    SubSeq(dir, 1, pos) \o <<[path |-> Len(dir) + 1, mtimeMs |-> ms]>>
        \o SubSeq(dir, pos + 1, Len(dir))

\* getJsonFiles(BASE_DIR): one ApiDataMetadata per file, in walk order
getJsonFiles(dir) ==
    [k \in 1 .. Len(dir) |->
        [path |-> dir[k].path, timestamp |-> floorSeconds(dir[k].mtimeMs)]]

\* the same with the sort left out
generateJSONUnsorted(dir) == [exists |-> TRUE, files |-> getJsonFiles(dir)]

\* generateJSON(): what it writes to JSON_FILE
generateJSON(dir) == [exists |-> TRUE, files |-> sortByTimestamp(getJsonFiles(dir))]

ApiAtRest ==
    /\ dataDir = <<>>
    /\ apiIndex = [exists |-> FALSE, files |-> <<>>]
    /\ apiPc = "idle"
    /\ cycloneIds = 0
    /\ collected = <<>>

\* ---- fetch_satellite.ts
WMS_LAYERS == <<"ir108", "rgb_naturalenhncd">>

\* satellite_metadata.json: absent, unparseable, or a SatelliteMetadata
AbsentFile ==
    [state |-> "absent", last_updated |-> 0, total_images |-> 0, images |-> <<>>]

CorruptFile ==
    [state |-> "corrupt", last_updated |-> 0, total_images |-> 0, images |-> <<>>]

\* what a run at second 150 leaves when only its first layer downloaded
EarlierFile ==
    [state |-> "valid", last_updated |-> 150, total_images |-> 1,
     images |-> <<[layer |-> "ir108", timestamp |-> 150]>>]

EmptyMetadata == [last_updated |-> 0, total_images |-> 0, images |-> <<>>]

\* loadMetadata(): the parsed file, or the empty structure
loadMetadata(file) ==
    IF file.state = "valid"
    THEN [last_updated |-> file.last_updated, total_images |-> file.total_images,
          images |-> file.images]
    ELSE EmptyMetadata

\* saveMetadata(metadata): the file it leaves
saveMetadata(m) ==
    [state |-> "valid", last_updated |-> m.last_updated,
     total_images |-> m.total_images, images |-> m.images]

SatState ==
    [metadataFile |-> metadataFile, satPc |-> satPc, satMetadata |-> satMetadata,
     newImages |-> newImages, layerIndex |-> layerIndex, timestamp |-> timestamp,
     attempted |-> attempted, succeeded |-> succeeded, writes |-> writes,
     fileBefore |-> fileBefore, satRuns |-> satRuns]

SatBecomes(s) ==
    /\ metadataFile' = s.metadataFile
    /\ satPc' = s.satPc
    /\ satMetadata' = s.satMetadata
    /\ newImages' = s.newImages
    /\ layerIndex' = s.layerIndex
    /\ timestamp' = s.timestamp
    /\ attempted' = s.attempted
    /\ succeeded' = s.succeeded
    /\ writes' = s.writes
    /\ fileBefore' = s.fileBefore
    /\ satRuns' = s.satRuns
    /\ UNCHANGED <<hookVars, boundsVars, apiVars>>

\* the loop body up to `await downloadSatelliteImage(...)`
startDownload(s) ==
    [s EXCEPT !.attempted = Append(@, WMS_LAYERS[s.layerIndex + 1]),
              !.satPc = "download"]

\* `// Update metadata`: push, sort, count and save, or warn
updateMetadata(s) ==
    IF Len(s.newImages) > 0
    THEN LET images == sortByTimestamp(s.satMetadata.images \o s.newImages)
             m == [last_updated |-> s.timestamp, total_images |-> Len(images),
                   images |-> images]
         IN  [s EXCEPT !.satMetadata = m,
                       !.metadataFile = saveMetadata(m),
                       !.writes = @ + 1,
                       !.satPc = "done"]
    ELSE [s EXCEPT !.satPc = "done"]

\* the same with a failed download thrown on to main's catch
downloadSettledAborts(s, success) ==
    LET layer == WMS_LAYERS[s.layerIndex + 1]
        s1 == [s EXCEPT !.newImages =
                            Append(@, [layer |-> layer, timestamp |-> s.timestamp]),
                        !.succeeded = @ \cup {layer}]
        s2 == [s1 EXCEPT !.layerIndex = @ + 1]
    IN  IF ~success
        THEN [s EXCEPT !.satPc = "exit"]
        ELSE IF s2.layerIndex < Len(WMS_LAYERS)
             THEN startDownload(s2)
             ELSE updateMetadata(s2)

\* downloadSatelliteImage returned `success`: the rest of the loop body, then
\* the next layer's download or, after the last, the metadata update
downloadSettled(s, success) ==
    LET layer == WMS_LAYERS[s.layerIndex + 1]
        s1 == IF success
              THEN [s EXCEPT !.newImages =
                                 Append(@, [layer |-> layer, timestamp |-> s.timestamp]),
                             !.succeeded = @ \cup {layer}]
              ELSE s
        s2 == [s1 EXCEPT !.layerIndex = @ + 1]
    IN  IF s2.layerIndex < Len(WMS_LAYERS)
        THEN startDownload(s2)
        ELSE updateMetadata(s2)

\* main() up to the first download; mkdirSync throwing ends in process.exit(1)
satMain(s, ms, mkdirOk) ==
    LET s1 == [s EXCEPT !.timestamp = floorSeconds(ms),
                        !.satRuns = @ + 1,
                        !.fileBefore = s.metadataFile,
                        !.satMetadata = EmptyMetadata,
                        !.newImages = <<>>,
                        !.layerIndex = 0,
                        !.attempted = <<>>,
                        !.succeeded = {},
                        !.writes = 0]
    IN  IF ~mkdirOk
        THEN [s1 EXCEPT !.satPc = "exit"]
        ELSE startDownload([s1 EXCEPT !.satMetadata = loadMetadata(s.metadataFile)])

SatAtRest(files) ==
    /\ metadataFile \in files
    /\ satPc = "idle"
    /\ satMetadata = EmptyMetadata
    /\ newImages = <<>>
    /\ layerIndex = 0
    /\ timestamp = 0
    /\ attempted = <<>>
    /\ succeeded = {}
    /\ writes = 0
    /\ fileBefore = AbsentFile
    /\ satRuns = 0

ToolsAtRest == BoundsAtRest /\ ApiAtRest /\ SatAtRest({AbsentFile})

\* The hook as constructed: useState's initial values, and init suspended at
\* `await loadMetadata()`.
InitWith(arrays, horizons) ==
    /\ now \in {h + TwoDaysMs : h \in horizons}
    /\ serverData \in arrays
    /\ metadata = <<>>
    /\ currentSnapshot = Null
    /\ currentMetadata = Null
    /\ isLoading = TRUE
    /\ loadingMessage = MsgMetadata
    /\ loadingProgress = 0
    /\ error = NoError
    /\ defaultIndex = 0
    /\ mounted = TRUE
    /\ pc = "loadMetadata"
    /\ initialIndex = 0
    /\ total = 0
    /\ completed = 0
    /\ task = [i \in Indices(serverData) |-> "none"]
    /\ img = [i \in Indices(serverData) |-> [ir108 |-> "none", rgb |-> "none"]]
    /\ req = [i \in Indices(serverData) |-> "idle"]
    /\ inflight = [i \in Indices(serverData) |-> 0]
    /\ waiting = [i \in Indices(serverData) |-> FALSE]
    /\ progressLog = <<0>>
    /\ consoleErrors = {}

\* loadMetadata() resolves with the index
MetadataLoaded ==
    /\ pc = "loadMetadata"
    /\ Becomes(afterLoadMetadata(State, serverData))

\* loadMetadata() rejects
MetadataFailed ==
    /\ pc = "loadMetadata"
    /\ Becomes(catchBlock(State, ErrIndex))

SnapshotSettled(i, ok, ir, rgb) ==
    /\ req[i] = "pending"
    /\ task[i] # "fetch" => ~ir /\ ~rgb
    /\ Becomes(snapshotSettled(State, i, ok, ir, rgb))

\* a preload settles; once its entry's callback threw nothing awaits it any more
ImageSettled(i, layer, ok) ==
    /\ img[i][layer] = "pending"
    /\ task[i] = "images"
    /\ Becomes(imageSettled(State, i, layer, ok))

\* the consumer calls loadSnapshot(index); it is there to call while mounted
LoadSnapshot(index) ==
    /\ mounted
    /\ Becomes(loadSnapshot(State, index))

\* return () => { mounted = false; }
Cleanup ==
    /\ mounted
    /\ Becomes([State EXCEPT !.mounted = FALSE])

Next ==
    \/ MetadataLoaded
    \/ MetadataFailed
    \/ \E i \in Indices(serverData), ok, ir, rgb \in BOOLEAN :
           SnapshotSettled(i, ok, ir, rgb)
    \/ \E i \in Indices(serverData), layer \in Layers, ok \in BOOLEAN :
           ImageSettled(i, layer, ok)
    \/ \E index \in -1 .. Len(metadata) : LoadSnapshot(index)
    \/ Cleanup

Init == InitWith(Arrays(Timestamps, MaxLen), Horizons) /\ ToolsAtRest

Spec == Init /\ [][Next]_vars

\* init's selection alone, on more arrays: the index arrives and init runs to
\* its next await.
InitSel == InitWith(Arrays(SelTimestamps, SelLen), SelHorizons) /\ ToolsAtRest

NextSel == MetadataLoaded

SpecSel == InitSel /\ [][NextSel]_vars

\* ------------------------------------------------------------------ claims
Horizon == twoDaysAgo(now)

Distance(i) == Abs(metadata[i + 1].timestamp - Horizon)

\* init has run past the selection on a non-empty index
Selected == pc # "loadMetadata" /\ Len(metadata) > 0

\* C1: for every non-empty metadata array, defaultIndex is an index whose
\* timestamp is nearest to the horizon now - 2 days, and no smaller index is as
\* near.
C1_DefaultIndexNearest ==
    Selected =>
        /\ defaultIndex \in Indices(metadata)
        /\ \A j \in Indices(metadata) :
              /\ Distance(defaultIndex) <= Distance(j)
              /\ Distance(j) = Distance(defaultIndex) => defaultIndex <= j

\* the tie of the example: 200 and 300 are both 50 away from 250
C1_Witness ==
    /\ Selected
    /\ Horizon = 250
    /\ metadata = <<[timestamp |-> 100], [timestamp |-> 200], [timestamp |-> 300]>>
    /\ defaultIndex = 1

\* the entries init started a prefetch callback for
Prefetched == {i \in DOMAIN task : task[i] # "none"}

\* C2: the prefetch set is exactly the set of entries with timestamp >= horizon,
\* whether or not the default entry is one of them; for [100, 200, 300] and
\* horizon 250 it is the entry 300 alone while defaultIndex is 1.
C2_PrefetchSetExact ==
    Selected =>
        /\ Prefetched = {i \in Indices(metadata) : metadata[i + 1].timestamp >= Horizon}
        /\ total = Cardinality(Prefetched)
        /\ (/\ Horizon = 250
            /\ metadata = <<[timestamp |-> 100], [timestamp |-> 200], [timestamp |-> 300]>>)
           => Prefetched = {2} /\ defaultIndex = 1

\* the example: the default entry is not prefetched
C2_Witness ==
    /\ Selected
    /\ Horizon = 250
    /\ metadata = <<[timestamp |-> 100], [timestamp |-> 200], [timestamp |-> 300]>>
    /\ Prefetched = {2}
    /\ defaultIndex \notin Prefetched

NothingStarted ==
    /\ \A i \in DOMAIN req : req[i] = "idle"
    /\ \A i \in DOMAIN task : task[i] = "none"
    /\ \A i \in DOMAIN img : img[i].ir108 = "none" /\ img[i].rgb = "none"

\* C3: when the index fetch returns an empty array (the consumer being there),
\* init ends at once with isLoading = false, currentSnapshot = null and
\* error = null, having started no snapshot fetch and no image preload.
C3_EmptyIndex ==
    [][(MetadataLoaded /\ mounted /\ serverData = <<>>) =>
          (/\ pc' = "done"
           /\ isLoading' = FALSE
           /\ currentSnapshot' = Null
           /\ currentMetadata' = Null
           /\ error' = NoError
           /\ metadata' = <<>>
           /\ NothingStarted')]_vars

C3_Witness ==
    /\ serverData = <<>>
    /\ pc = "done"
    /\ mounted
    /\ ~isLoading
    /\ error = NoError
    /\ currentSnapshot = Null

\* the prefetch set, from the data
PrefetchSet == {i \in Indices(metadata) : metadata[i + 1].timestamp >= Horizon}

\* the step in which init publishes: it ends, on a non-empty index, without error
InitPublishes ==
    /\ pc # "done" /\ pc' = "done"
    /\ Len(metadata') > 0
    /\ isLoading /\ ~isLoading'
    /\ error' = NoError

\* C4: init publishes the current snapshot only once every entry of the prefetch
\* set has settled (its fetch and its preloads), and what it publishes, with
\* currentMetadata and isLoading = false, is the snapshot of metadata[defaultIndex].
C4_PublishAfterPrefetch ==
    [][InitPublishes =>
          (/\ \A i \in PrefetchSet' :
                 /\ task'[i] = "done"
                 /\ req'[i] = "cached"
                 /\ img'[i].ir108 # "pending" /\ img'[i].rgb # "pending"
           /\ completed' = total'
           /\ currentSnapshot' = Snap(defaultIndex')
           /\ currentMetadata' = Snap(defaultIndex')
           /\ req'[defaultIndex'] = "cached")]_vars

\* published after a prefetch of two entries
C4_Witness ==
    /\ pc = "done" /\ mounted /\ ~isLoading /\ error = NoError
    /\ total = 2 /\ completed = 2
    /\ currentSnapshot = Snap(defaultIndex)
    /\ currentMetadata = Snap(defaultIndex)

\* C5: one entry of the prefetch set failing (its snapshot fetch or one of its
\* preloads) fails the batch: init has ended, with the consumer there it is in
\* the error state (error set, isLoading = false), and it has published nothing
\* (a current snapshot can only come from a loadSnapshot call, which sets
\* currentMetadata first), whatever the other entries do.
C5_OneFailureFailsBatch ==
    (\E i \in DOMAIN task : task[i] = "failed") =>
        /\ pc = "done"
        /\ mounted => error \in {ErrSnapshot, ErrImage} /\ ~isLoading
        /\ error # NoError => ~isLoading
        /\ currentMetadata = Null => currentSnapshot = Null

\* one entry failed on a preload, the other one completed
C5_Witness ==
    /\ mounted
    /\ \E i, j \in DOMAIN task :
          /\ task[i] = "failed" /\ req[i] = "cached"
          /\ task[j] = "done"
    /\ error = ErrImage
    /\ ~isLoading
    /\ currentSnapshot = Null

\* C6: when the index fetch fails, init aborts: error is set, isLoading is
\* false, metadata stays empty, no snapshot fetch and no preload is ever
\* started, and currentSnapshot stays null.
C6_IndexLoadError ==
    error = ErrIndex =>
        /\ pc = "done"
        /\ ~isLoading
        /\ metadata = <<>>
        /\ NothingStarted
        /\ currentSnapshot = Null
        /\ currentMetadata = Null

C6_Witness ==
    /\ error = ErrIndex
    /\ ~isLoading
    /\ Len(serverData) = 2
    /\ ~mounted

\* C7: loadSnapshot(index) with index < 0 or index >= metadata.length changes
\* nothing: no field of the hook state, no request, no pending continuation.
C7_OutOfRangeNoOp ==
    [][\A index \in -1 .. MaxLen + 1 :
          (LoadSnapshot(index) /\ (index < 0 \/ index >= Len(metadata)))
              => UNCHANGED vars]_vars

\* a state with something to lose: a loaded index and a published snapshot, in
\* which loadSnapshot(-1) and loadSnapshot(metadata.length) are called
C7_Witness ==
    /\ mounted
    /\ Len(metadata) = MaxLen
    /\ currentSnapshot # Null
    /\ ENABLED LoadSnapshot(-1)
    /\ ENABLED LoadSnapshot(Len(metadata))

\* the request for reference i fails and only loadSnapshot calls await it
LoadSnapshotFetchFails(i) ==
    /\ waiting[i]
    /\ req[i] = "pending" /\ req'[i] = "idle"
    /\ task[i] # "fetch"
    /\ ~(pc = "final" /\ initialIndex = i)

NonDecreasing(log) == \A j, k \in 1 .. Len(log) : j <= k => log[j] <= log[k]

\* C9: the values passed to setLoadingProgress never decrease; with the
\* consumer there, a prefetch of total >= 1 entries reports one value per
\* completed entry, and the value reported when completed = total is 100.
C9_ProgressSteps ==
    /\ NonDecreasing(progressLog)
    /\ loadingProgress = progressLog[Len(progressLog)]
    /\ (mounted /\ total >= 1) =>
          /\ Len(progressLog) = 1 + completed + (IF completed = total THEN 1 ELSE 0)
          /\ \A c \in 1 .. completed : 0 < progressLog[1 + c] /\ progressLog[1 + c] <= 100
          /\ completed = total => progressLog[1 + total] = 100
          /\ completed < total => progressLog[1 + completed] < 100

\* both entries of a prefetch of two completed: 0, 50, 100, and step 3's 100
C9_Witness ==
    /\ mounted
    /\ total = 2 /\ completed = 2
    /\ progressLog = <<0, 50, 100, 100>>

\* the entries whose snapshot fetch and whose preloads all finished successfully
FullyLoaded ==
    {i \in DOMAIN task :
        /\ task[i] \in {"images", "done"}
        /\ img[i].ir108 \in {"none", "loaded"}
        /\ img[i].rgb \in {"none", "loaded"}}

\* C10: at every moment, completed is the number of prefetch entries whose
\* snapshot fetch and all of whose preloads finished successfully: one
\* increment per entry, none per sub-step.
C10_CompletedCountsEntries ==
    /\ completed = Cardinality(FullyLoaded)
    /\ completed <= total

\* one entry done, the other one between its two preloads
C10_Witness ==
    /\ total = 2 /\ completed = 1
    /\ \E i \in DOMAIN task :
          /\ task[i] = "images"
          /\ img[i].ir108 = "loaded"
          /\ img[i].rgb = "pending"

\* C11: within one prefetch entry no preload (IR108 or RGB) exists before the
\* entry's snapshot fetch has resolved successfully; entries do not wait for
\* one another.
C11_SnapshotBeforeImages ==
    \A i \in DOMAIN img : \A layer \in Layers :
        img[i][layer] # "none" =>
            /\ req[i] = "cached"
            /\ task[i] \in {"images", "done", "failed"}

\* the later entry is through its fetch and between its two preloads while the
\* earlier one still awaits its snapshot
C11_Witness ==
    /\ total = 2
    /\ task[0] = "fetch" /\ req[0] = "pending"
    /\ task[1] = "images" /\ img[1].ir108 = "loaded" /\ img[1].rgb = "pending"

HookState ==
    <<metadata, currentSnapshot, currentMetadata, isLoading, loadingProgress,
      loadingMessage, error, defaultIndex>>

\* C12: once the cleanup has run, a request that resolves or fails writes no
\* field of the hook state, whether init or loadSnapshot started it.
C12_IgnoredAfterCleanup ==
    [][~mounted => UNCHANGED HookState]_vars

\* a request for reference i is known to have failed: a loadSnapshot call logged
\* it, or the prefetch callback of i threw before any preload
PreviouslyFailed(i) ==
    \/ i \in consoleErrors
    \/ task[i] = "failed" /\ img[i].ir108 = "none" /\ img[i].rgb = "none"

\* C13 as stated: a reference is requested at most once in a run, so no request
\* is issued for a reference after a request for it has failed.
C13_AtMostOneRequestEver ==
    [][\A i \in DOMAIN inflight :
          inflight'[i] > inflight[i] => ~PreviouslyFailed(i)]_vars

\* C13 amended: fetches are coalesced by key.  At most one request per
\* reference is in flight at any time, a call made while it is in flight shares
\* it, and no request is issued once the snapshot is cached; only a request that
\* failed can be followed by another one for the same reference.
C13_CoalescedByKey ==
    [][\A i \in DOMAIN inflight :
          /\ inflight'[i] <= 1
          /\ inflight'[i] > inflight[i] => req[i] = "idle" /\ inflight[i] = 0
          /\ req[i] = "cached" => req'[i] = "cached" /\ inflight'[i] = 0]_vars

\* a loadSnapshot call and the prefetch callback of the same entry await the one
\* request in flight
C13_Witness ==
    \E i \in DOMAIN inflight :
        /\ task[i] = "fetch"
        /\ waiting[i]
        /\ req[i] = "pending"
        /\ inflight[i] = 1

\* a preload of a prefetch entry has not settled and no entry has failed
PreloadOutstanding ==
    /\ \E i \in DOMAIN img : \E layer \in Layers : img[i][layer] = "pending"
    /\ \A j \in DOMAIN task : task[j] # "failed"

\* C14: while a preload of a prefetch entry has not settled (and no entry has
\* failed), init does not complete: it is still suspended on the prefetch,
\* isLoading is true, no error is set and init has published nothing (a current
\* snapshot can only come from a loadSnapshot call).  A preload that never
\* settles therefore keeps the hook loading for ever.
C14_StalledPreloadBlocksInit ==
    PreloadOutstanding =>
        /\ pc = "prefetch"
        /\ isLoading
        /\ error = NoError
        /\ completed < total
        /\ currentMetadata = Null => currentSnapshot = Null

\* every other entry has completed and every other preload has loaded: only one
\* preload is missing
C14_Witness ==
    /\ mounted
    /\ total = 2 /\ completed = 1
    /\ isLoading
    /\ currentSnapshot = Null
    /\ \E i \in DOMAIN img :
          /\ task[i] = "images"
          /\ img[i].ir108 = "loaded"
          /\ img[i].rgb = "pending"

\* every fetch awaited by a loadSnapshot call has resolved, none of them failed
LoadSnapshotSettled ==
    /\ \A i \in DOMAIN waiting : ~waiting[i]
    /\ consoleErrors = {}

\* C17: once every outstanding fetch started by loadSnapshot calls with valid
\* indices has resolved successfully, currentSnapshot is the snapshot of
\* currentMetadata, whatever the order in which the fetches resolved.  Stated
\* while init is still prefetching, so that only loadSnapshot calls have
\* written the two fields.
C17_SnapshotCatchesUp ==
    (LoadSnapshotSettled /\ currentMetadata # Null /\ pc = "prefetch") =>
        currentSnapshot = currentMetadata

\* ---------------------------------------------------------------------------
\* The viewer's overlay: a satellite image entry with any four coordinates is
\* given to the map.
HookAtRest == InitWith({<<>>}, {250})

\* <ImageOverlay bounds={bboxToLeafletBounds(ir108Data.bbox)} />
RenderOverlay ==
    /\ bounds = Null
    /\ bounds' = bboxToLeafletBounds(bbox)
    /\ UNCHANGED <<bbox, hookVars, apiVars, satVars>>

InitBounds ==
    /\ HookAtRest
    /\ bbox \in [1 .. 4 -> Degrees]
    /\ bounds = Null
    /\ ApiAtRest
    /\ SatAtRest({AbsentFile})

NextBounds == RenderOverlay

SpecBounds == InitBounds /\ [][NextBounds]_vars

\* ---------------------------------------------------------------------------
\* The fetchers, as cron starts them: run after run of each.  They are
\* separate processes and share no file.

\* fetch_api.ts main() up to `await client.listCyclones(...)`
ApiStart ==
    /\ apiPc \in {"idle", "done", "exit"}
    /\ Len(dataDir) < MaxFiles
    /\ apiPc' = "list"
    /\ UNCHANGED <<dataDir, apiIndex, cycloneIds, collected>>
    /\ UNCHANGED <<hookVars, boundsVars, satVars>>

\* listCyclones settles: on success the list is saved and names n cyclones;
\* with none the loop is empty and the index is generated at once
ListFetched(ok, n, ms, pos) ==
    /\ apiPc = "list"
    /\ IF ~ok
       THEN /\ apiPc' = "exit"
            /\ UNCHANGED <<dataDir, apiIndex, cycloneIds, collected>>
       ELSE LET dir == saveJson(dataDir, pos, ms)
            IN  /\ dataDir' = dir
                /\ cycloneIds' = n
                /\ IF n = 0
                   THEN /\ collected' = getJsonFiles(dir)
                        /\ apiIndex' = generateJSON(dir)
                        /\ apiPc' = "done"
                   ELSE /\ apiPc' = "trajectory"
                        /\ UNCHANGED <<apiIndex, collected>>
    /\ UNCHANGED <<hookVars, boundsVars, satVars>>

\* getCycloneTrajectory settles: on success the trajectory is saved, and after
\* the last one the index is generated
TrajectoryFetched(ok, ms, pos) ==
    /\ apiPc = "trajectory"
    /\ IF ~ok
       THEN /\ apiPc' = "exit"
            /\ UNCHANGED <<dataDir, apiIndex, cycloneIds, collected>>
       ELSE LET dir == saveJson(dataDir, pos, ms)
            IN  /\ dataDir' = dir
                /\ cycloneIds' = cycloneIds - 1
                /\ IF cycloneIds = 1
                   THEN /\ collected' = getJsonFiles(dir)
                        /\ apiIndex' = generateJSON(dir)
                        /\ apiPc' = "done"
                   ELSE UNCHANGED <<apiPc, apiIndex, collected>>
    /\ UNCHANGED <<hookVars, boundsVars, satVars>>

\* fetch_satellite.ts main() starts
SatStart(ms, mkdirOk) ==
    /\ satPc \in {"idle", "done", "exit"}
    /\ satRuns < MaxRuns
    /\ SatBecomes(satMain(SatState, ms, mkdirOk))

DownloadSettled(success) ==
    /\ satPc = "download"
    /\ SatBecomes(downloadSettled(SatState, success))

InitFetch ==
    /\ HookAtRest
    /\ BoundsAtRest
    /\ ApiAtRest
    /\ SatAtRest({AbsentFile, CorruptFile, EarlierFile})

NextFetch ==
    \/ ApiStart
    \/ \E ok \in BOOLEAN, n \in 0 .. MaxFiles - Len(dataDir) - 1, ms \in ClockMs,
          pos \in 0 .. Len(dataDir) : ListFetched(ok, n, ms, pos)
    \/ \E ok \in BOOLEAN, ms \in ClockMs, pos \in 0 .. Len(dataDir) :
           TrajectoryFetched(ok, ms, pos)
    \/ \E ms \in ClockMs, mkdirOk \in BOOLEAN : SatStart(ms, mkdirOk)
    \/ \E success \in BOOLEAN : DownloadSettled(success)

SpecFetch == InitFetch /\ [][NextFetch]_vars

\* ---------------------------------------------------------------------------
\* The error state of init: the catch block has run while mounted.
InitFailed == error # NoError /\ ~isLoading

\* C18: once init is in the error state it writes no further hook state:
\* loadingProgress and loadingMessage no longer change, even when prefetch
\* entries that were in flight at the failure complete afterwards.
C18_NoProgressAfterError ==
    [][InitFailed => UNCHANGED <<loadingProgress, loadingMessage>>]_vars

\* ---------------------------------------------------------------------------
\* The hook while it stays mounted, with every request it starts settling in
\* the end: the browser delivers each response, load or error event.
SnapshotSettles(i) ==
    /\ i \in Indices(serverData)
    /\ \E ok, ir, rgb \in BOOLEAN : SnapshotSettled(i, ok, ir, rgb)

ImageSettles(i, layer) ==
    /\ i \in Indices(serverData)
    /\ \E ok \in BOOLEAN : ImageSettled(i, layer, ok)

NextLive ==
    \/ MetadataLoaded
    \/ MetadataFailed
    \/ \E i \in Indices(serverData) : SnapshotSettles(i)
    \/ \E i \in Indices(serverData), layer \in Layers : ImageSettles(i, layer)
    \/ \E index \in -1 .. Len(metadata) : LoadSnapshot(index)

SpecLive ==
    /\ Init
    /\ [][NextLive]_vars
    /\ WF_vars(MetadataLoaded \/ MetadataFailed)
    /\ \A i \in 0 .. MaxLen - 1 :
           /\ WF_vars(SnapshotSettles(i))
           /\ \A layer \in Layers : WF_vars(ImageSettles(i, layer))

\* the three outcomes of init
OutcomeEmpty ==
    Len(metadata) = 0 /\ currentSnapshot = Null /\ error = NoError

OutcomeReady ==
    Len(metadata) > 0 /\ currentSnapshot # Null /\ error = NoError

OutcomeError == error # NoError

Outcomes ==
    {o \in {"empty", "ready", "error"} :
        \/ o = "empty" /\ OutcomeEmpty
        \/ o = "ready" /\ OutcomeReady
        \/ o = "error" /\ OutcomeError}

InitTerminated == pc = "done" /\ ~isLoading /\ Cardinality(Outcomes) = 1

\* C19: when every metadata fetch, snapshot fetch and image preload settles in
\* the end and the hook stays mounted, init eventually terminates with
\* isLoading = false in exactly one of the outcomes empty, ready and error,
\* and stays there.
C19_InitTerminates == <>[]InitTerminated

C19_Witness ==
    /\ InitTerminated
    /\ OutcomeReady
    /\ total = 2
    /\ completed = 2

\* ---------------------------------------------------------------------------
\* C15: bboxToLeafletBounds maps every [minLon, minLat, maxLon, maxLat] to
\* [[minLat, minLon], [maxLat, maxLon]] with the four values as they are, in
\* range or not, so that WMS_BBOX [21.1, -41, 103, 21.1] gives
\* [[-41, 21.1], [21.1, 103]].
C15_AxisSwapOnly ==
    bounds # Null =>
        /\ Len(bounds) = 2
        /\ bounds[1] = <<bbox[2], bbox[1]>>
        /\ bounds[2] = <<bbox[4], bbox[3]>>
        /\ bbox = <<211, -410, 1030, 211>> =>
               bounds = <<<<-410, 211>>, <<211, 1030>>>>

C15_Witness ==
    /\ bbox = <<211, -410, 1030, 211>>
    /\ bounds = <<<<-410, 211>>, <<211, 1030>>>>

\* ---------------------------------------------------------------------------
\* How often e occurs in a list, and two lists holding the same entries.
Count(list, e) == Cardinality({k \in DOMAIN list : list[k] = e})

SameEntries(a, b) ==
    /\ Len(a) = Len(b)
    /\ \A k \in DOMAIN a : Count(a, a[k]) = Count(b, a[k])

\* C16: every index file the fetchers write is sorted by timestamp ascending
\* and holds exactly the entries collected: api_data.json holds every file
\* getJsonFiles found, in non-decreasing timestamp order, and the images list of
\* satellite_metadata.json is in non-decreasing timestamp order after each run
\* that appends to it, holding what was loaded and the run's new images.
C16_IndexSortedAndComplete ==
    /\ apiIndex.exists =>
           /\ Sorted(apiIndex.files)
           /\ SameEntries(apiIndex.files, collected)
    /\ apiPc = "done" => collected = getJsonFiles(dataDir)
    /\ metadataFile.state = "valid" => Sorted(metadataFile.images)
    /\ (satPc = "done" /\ writes > 0) =>
           SameEntries(metadataFile.images,
                       loadMetadata(fileBefore).images \o newImages)

\* an index of two files the walk met latest first, and a run of the satellite
\* fetcher, at an earlier second than the stored image, that appended
C16_Witness ==
    /\ apiPc = "done"
    /\ Len(collected) = 2
    /\ collected[1].timestamp > collected[2].timestamp
    /\ satPc = "done"
    /\ writes > 0
    /\ fileBefore = EarlierFile
    /\ timestamp < 150

\* ---------------------------------------------------------------------------
\* The image entries a finished run should have added: one per layer that
\* downloaded, carrying the run's timestamp.
Gained ==
    SelectSeq([k \in 1 .. Len(WMS_LAYERS) |->
                  [layer |-> WMS_LAYERS[k], timestamp |-> timestamp]],
              LAMBDA e : e.layer \in succeeded)

\* C20: a failed download does not abort a run of the satellite fetcher: every
\* configured layer is attempted, the stored metadata gains exactly one image
\* entry per layer that downloaded, total_images is the length of the images
\* list, and the file is not written when no layer downloaded.
C20_FailedLayerSkipped ==
    /\ satPc = "exit" => attempted = <<>>
    /\ satPc = "done" =>
           /\ attempted = WMS_LAYERS
           /\ IF succeeded = {}
              THEN writes = 0 /\ metadataFile = fileBefore
              ELSE /\ writes = 1
                   /\ metadataFile.state = "valid"
                   /\ SameEntries(metadataFile.images,
                                  loadMetadata(fileBefore).images \o Gained)
                   /\ metadataFile.total_images = Len(metadataFile.images)

\* the first layer failed, the second downloaded, onto a stored image
C20_Witness ==
    /\ satPc = "done"
    /\ succeeded = {"rgb_naturalenhncd"}
    /\ fileBefore = EarlierFile
    /\ metadataFile.total_images = 2

====
